---------------------------- MODULE Spec2Model ----------------------------
(***************************************************************************)
(* Model of docker/snapshot-builder/metrics-server.py: the lock-protected  *)
(* SnapshotMetrics record, its five operations, the MetricsHandler routes  *)
(* and the serve_forever / KeyboardInterrupt life cycle of main().         *)
(*                                                                         *)
(* Two specifications share the store operations:                          *)
(*   Spec       the program: one thread (socketserver.TCPServer handles    *)
(*              one request at a time) plus the interrupt and the final    *)
(*              write;                                                     *)
(*   SpecStore  the SnapshotMetrics class driven by several concurrent     *)
(*              callers, one bytecode-level step at a time.                *)
(***************************************************************************)
EXTENDS Integers, Sequences, FiniteSets, TLC

(***************************************************************************)
(* Bounds of the model.                                                    *)
(***************************************************************************)
\* concurrent callers of the store in SpecStore
NumCallers == 2
\* cap on each snapshot counter (and on the calls that raise it)
MaxCount == 2
\* largest number of keys present in a modelled JSON object body
MaxKeys == 2
\* largest clock reading, in whole seconds
MaxClock == 1

(***************************************************************************)
(* Python values that reach the store: None, bool, int, str.               *)
(***************************************************************************)
PyNone == [t |-> "none", n |-> 0, s |-> ""]
PyBool(b) == [t |-> "bool", n |-> IF b THEN 1 ELSE 0, s |-> ""]
PyInt(i) == [t |-> "int", n |-> i, s |-> ""]
PyStr(x) == [t |-> "str", n |-> 0, s |-> x]
\* a key that the JSON object does not hold
Missing == [t |-> "missing", n |-> 0, s |-> ""]

\* Python truth value: None, False, 0 and "" are falsy
TruthyWhenPresent(v) == v.t \in {"bool", "int", "str"}
Truthy(v) ==
    CASE v.t = "none" -> FALSE
      [] v.t = "bool" -> v.n = 1
      [] v.t = "int" -> v.n # 0
      [] v.t = "str" -> v.s # ""
      [] OTHER -> FALSE

Digit == <<"0", "1", "2", "3", "4", "5", "6", "7", "8", "9">>
RECURSIVE IntStr(_)
\* str(n) of a non-negative int
IntStr(n) == IF n < 10 THEN Digit[n + 1]
             ELSE IntStr(n \div 10) \o Digit[(n % 10) + 1]
\* str(x) of a float holding a whole number of seconds
FloatStr(n) == IntStr(n) \o ".0"
\* str(v), as an f-string or str.format interpolates v
Str(v) ==
    CASE v.t = "none" -> "None"
      [] v.t = "bool" -> (IF v.n = 1 THEN "True" ELSE "False")
      [] v.t = "int" -> IntStr(v.n)
      [] OTHER -> v.s
\* json.dumps(v) of a scalar (the modelled strings need no escaping)
JsonDumps(v) ==
    CASE v.t = "none" -> "null"
      [] v.t = "bool" -> (IF v.n = 1 THEN "true" ELSE "false")
      [] v.t = "int" -> IntStr(v.n)
      [] OTHER -> "\"" \o v.s \o "\""

(***************************************************************************)
(* Process environment, os.environ.get(name, default).                     *)
(***************************************************************************)
Environ == [POD_NAME |-> "builder-0", ETHEREUM_NETWORK |-> "mainnet"]
EnvGet(name, default) ==
    IF name \in DOMAIN Environ THEN Environ[name] ELSE default

(***************************************************************************)
(* Threads: the server's only thread, and the callers of SpecStore.        *)
(***************************************************************************)
Main == 0
Callers == 1 .. NumCallers
Threads == {Main} \cup Callers
NoThread == -1

VARIABLES
    metrics,   \* the SnapshotMetrics instance (fields of __init__)
    lock,      \* holder of metrics.lock, or NoThread
    frame,     \* per thread: the store operation it is running
    calls,     \* increment calls made so far, per counter
    hpc,       \* position of the server thread in main() / the handler
    req,       \* the request being handled
    data,      \* do_POST's post_data / data
    view,      \* do_GET's health_data / format arguments, as they are read
    resp,      \* responses sent for the request being handled
    entry,     \* the counters when the request was accepted
    backlog,   \* connections made but not yet accepted (the listen queue)
    stalled    \* the body of the request being handled has not all arrived

vars == <<metrics, lock, frame, calls, hpc, req, data, view, resp, entry,
          backlog, stalled>>
client == <<backlog, stalled>>
server == <<hpc, req, data, view, resp, entry, client>>

StartTime == 0
Clock == StartTime .. MaxClock

\* SnapshotMetrics.__init__
NewMetrics ==
    [start_time |-> StartTime,
     status |-> PyStr("running"),
     current_operation |-> PyStr("initializing"),
     progress_percent |-> PyInt(0),
     bytes_processed |-> PyInt(0),
     snapshots_created |-> 0,
     snapshots_cleaned |-> 0,
     last_error |-> PyStr("")]

(***************************************************************************)
(* get_metrics: the exposition text, as its lines.                         *)
(***************************************************************************)
\* {"running": 1, "stopped": 0, "error": 2}.get(status, 0)
StatusGaugeNoError(status) ==
    IF status = PyStr("running") THEN 1 ELSE 0
StatusGauge(status) ==
    IF status = PyStr("running") THEN 1
    ELSE IF status = PyStr("stopped") THEN 0
    ELSE IF status = PyStr("error") THEN 2
    ELSE 0

Unread == [uptime |-> 0, status |-> PyNone, progress_percent |-> PyNone,
           bytes_processed |-> PyNone, snapshots_created |-> 0,
           snapshots_cleaned |-> 0, current_operation |-> PyNone,
           last_error |-> PyNone]

\* the first f-string of get_metrics
MetricsText(s) ==
    << "# HELP snapshot_builder_info Information about the snapshot builder",
       "# TYPE snapshot_builder_info gauge",
       "snapshot_builder_info{pod=\"" \o EnvGet("POD_NAME", "unknown")
          \o "\",namespace=\"" \o EnvGet("POD_NAMESPACE", "unknown")
          \o "\",network=\"" \o EnvGet("ETHEREUM_NETWORK", "unknown")
          \o "\"} 1",
       "",
       "# HELP snapshot_builder_uptime_seconds Uptime of the snapshot builder in seconds",
       "# TYPE snapshot_builder_uptime_seconds counter",
       "snapshot_builder_uptime_seconds " \o FloatStr(s.uptime),
       "",
       "# HELP snapshot_builder_status Current status of the builder (0=stopped, 1=running, 2=error)",
       "# TYPE snapshot_builder_status gauge",
       "snapshot_builder_status " \o IntStr(StatusGauge(s.status)),
       "",
       "# HELP snapshot_builder_progress_percent Current operation progress percentage",
       "# TYPE snapshot_builder_progress_percent gauge",
       "snapshot_builder_progress_percent " \o Str(s.progress_percent),
       "",
       "# HELP snapshot_builder_bytes_processed_total Total bytes processed",
       "# TYPE snapshot_builder_bytes_processed_total counter",
       "snapshot_builder_bytes_processed_total " \o Str(s.bytes_processed),
       "",
       "# HELP snapshot_builder_snapshots_created_total Total snapshots created",
       "# TYPE snapshot_builder_snapshots_created_total counter",
       "snapshot_builder_snapshots_created_total " \o IntStr(s.snapshots_created),
       "",
       "# HELP snapshot_builder_snapshots_cleaned_total Total snapshots cleaned up",
       "# TYPE snapshot_builder_snapshots_cleaned_total counter",
       "snapshot_builder_snapshots_cleaned_total " \o IntStr(s.snapshots_cleaned),
       "",
       "# HELP snapshot_builder_last_operation_info Information about the current/last operation",
       "# TYPE snapshot_builder_last_operation_info gauge",
       "snapshot_builder_last_operation_info{operation=\""
          \o Str(s.current_operation) \o "\"} 1" >>

\* the second f-string of get_metrics, appended when last_error is truthy
ErrorText(err) ==
    << "",
       "# HELP snapshot_builder_last_error_info Information about the last error",
       "# TYPE snapshot_builder_last_error_info gauge",
       "snapshot_builder_last_error_info{error=\"" \o Str(err) \o "\"} 1" >>

\* what get_metrics returns for record m read at uptime u
Render(m, u) ==
    MetricsText([uptime |-> u, status |-> m.status,
                 progress_percent |-> m.progress_percent,
                 bytes_processed |-> m.bytes_processed,
                 snapshots_created |-> m.snapshots_created,
                 snapshots_cleaned |-> m.snapshots_cleaned,
                 current_operation |-> m.current_operation,
                 last_error |-> m.last_error])
    \o (IF Truthy(m.last_error) THEN ErrorText(m.last_error) ELSE <<>>)

(***************************************************************************)
(* Store operations, one step per statement inside "with self.lock".       *)
(***************************************************************************)
NoArgs == [status |-> PyNone, operation |-> PyStr(""), progress |-> PyNone,
           bytes_processed |-> PyNone, error |-> PyNone]
Idle == [op |-> "none", pc |-> "idle", args |-> NoArgs, tmp |-> 0,
         seen |-> Unread, ret |-> <<>>]
NewFrame(op, args) == [Idle EXCEPT !.op = op, !.pc = "acquire", !.args = args]

\* the caller keeps the value returned (the handler writes it to the socket)
UsesResult(t) == t = Main

\* threading.Lock.acquire blocks until the lock is free
LockIgnored(t) == TRUE
LockAvailable(t) == lock = NoThread

\* += 1
IncrementedTwice(n) == n + 2
Incremented(n) == n + 1

\* an exception leaves "with self.lock": __exit__ releases the lock if the
\* thread had acquired it
LockLeftHeld(t) == lock
LockAfterUnwind(t) == IF lock = t THEN NoThread ELSE lock

\* calling a store operation
Invoke(t, op, args) ==
    /\ frame' = [frame EXCEPT ![t] = NewFrame(op, args)]
    /\ calls' = IF op \in DOMAIN calls
                THEN [calls EXCEPT ![op] = @ + 1]
                ELSE calls

\* with self.lock: __enter__
acquire(t) ==
    /\ frame[t].pc = "acquire"
    /\ LockAvailable(t)
    /\ lock' = t
    /\ frame' = [frame EXCEPT ![t].pc =
                    CASE frame[t].op = "update_status" -> "us_status"
                      [] frame[t].op = "increment_snapshots_created" -> "inc_read"
                      [] frame[t].op = "increment_snapshots_cleaned" -> "inc_read"
                      [] frame[t].op = "set_error" -> "se_write"
                      [] OTHER -> "gm_uptime"]
    /\ UNCHANGED <<metrics, calls>>

\* with self.lock: __exit__, then the return to the caller
release(t) ==
    /\ frame[t].pc = "release"
    /\ lock' = NoThread
    /\ frame' = [frame EXCEPT ![t] =
                    IF UsesResult(t) /\ frame[t].op = "get_metrics"
                    THEN [Idle EXCEPT !.ret = frame[t].ret]
                    ELSE Idle]
    /\ UNCHANGED <<metrics, calls>>

\* self.status = status
update_status_status(t) ==
    /\ frame[t].pc = "us_status"
    /\ metrics' = [metrics EXCEPT !.status = frame[t].args.status]
    /\ frame' = [frame EXCEPT ![t].pc = "us_operation"]
    /\ UNCHANGED <<lock, calls>>

\* if operation: self.current_operation = operation
update_status_operation(t) ==
    /\ frame[t].pc = "us_operation"
    /\ metrics' = IF Truthy(frame[t].args.operation)
                  THEN [metrics EXCEPT !.current_operation = frame[t].args.operation]
                  ELSE metrics
    /\ frame' = [frame EXCEPT ![t].pc = "us_progress"]
    /\ UNCHANGED <<lock, calls>>

\* if progress is not None: self.progress_percent = progress
update_status_progress_truthy(t) ==
    /\ frame[t].pc = "us_progress"
    /\ metrics' = IF Truthy(frame[t].args.progress)
                  THEN [metrics EXCEPT !.progress_percent = frame[t].args.progress]
                  ELSE metrics
    /\ frame' = [frame EXCEPT ![t].pc = "us_bytes"]
    /\ UNCHANGED <<lock, calls>>
update_status_progress(t) ==
    /\ frame[t].pc = "us_progress"
    /\ metrics' = IF frame[t].args.progress # PyNone
                  THEN [metrics EXCEPT !.progress_percent = frame[t].args.progress]
                  ELSE metrics
    /\ frame' = [frame EXCEPT ![t].pc = "us_bytes"]
    /\ UNCHANGED <<lock, calls>>

\* if bytes_processed is not None: self.bytes_processed = bytes_processed
update_status_bytes(t) ==
    /\ frame[t].pc = "us_bytes"
    /\ metrics' = IF frame[t].args.bytes_processed # PyNone
                  THEN [metrics EXCEPT !.bytes_processed = frame[t].args.bytes_processed]
                  ELSE metrics
    /\ frame' = [frame EXCEPT ![t].pc = "release"]
    /\ UNCHANGED <<lock, calls>>

update_status(t) ==
    \/ update_status_status(t)
    \/ update_status_operation(t)
    \/ update_status_progress(t)
    \/ update_status_bytes(t)

CounterOfSwapped(op) == IF op = "increment_snapshots_created"
                        THEN "snapshots_cleaned" ELSE "snapshots_created"
CounterOf(op) == IF op = "increment_snapshots_created"
                 THEN "snapshots_created" ELSE "snapshots_cleaned"

\* self.snapshots_x += 1: the load
increment_read(t) ==
    /\ frame[t].pc = "inc_read"
    /\ frame' = [frame EXCEPT ![t].tmp = metrics[CounterOf(frame[t].op)],
                              ![t].pc = "inc_write"]
    /\ UNCHANGED <<metrics, lock, calls>>

\* self.snapshots_x += 1: the add and the store
increment_write(t) ==
    /\ frame[t].pc = "inc_write"
    /\ metrics' = [metrics EXCEPT ![CounterOf(frame[t].op)] = Incremented(frame[t].tmp)]
    /\ frame' = [frame EXCEPT ![t].tmp = 0, ![t].pc = "release"]
    /\ UNCHANGED <<lock, calls>>

increment_snapshots(t) == increment_read(t) \/ increment_write(t)

\* self.last_error = error
set_error_and_status(t) ==
    /\ frame[t].pc = "se_write"
    /\ metrics' = [metrics EXCEPT !.last_error = frame[t].args.error,
                                  !.status = PyStr("error")]
    /\ frame' = [frame EXCEPT ![t].pc = "release"]
    /\ UNCHANGED <<lock, calls>>
set_error(t) ==
    /\ frame[t].pc = "se_write"
    /\ metrics' = [metrics EXCEPT !.last_error = frame[t].args.error]
    /\ frame' = [frame EXCEPT ![t].pc = "release"]
    /\ UNCHANGED <<lock, calls>>

\* one attribute load of the first f-string
ReadField(t, at, field, next) ==
    /\ frame[t].pc = at
    /\ frame' = [frame EXCEPT ![t].seen[field] = metrics[field], ![t].pc = next]
    /\ UNCHANGED <<metrics, lock, calls>>

\* uptime = time.time() - self.start_time
get_metrics_uptime(t) ==
    /\ frame[t].pc = "gm_uptime"
    /\ \E now \in Clock :
          frame' = [frame EXCEPT ![t].seen.uptime = now - metrics.start_time,
                                 ![t].pc = "gm_status"]
    /\ UNCHANGED <<metrics, lock, calls>>

\* the last load of the first f-string, which then yields the text
get_metrics_text(t) ==
    /\ frame[t].pc = "gm_operation"
    /\ LET s == [frame[t].seen EXCEPT !.current_operation = metrics.current_operation]
       IN frame' = [frame EXCEPT ![t].seen = Unread,
                                 ![t].ret = MetricsText(s),
                                 ![t].pc = "gm_error"]
    /\ UNCHANGED <<metrics, lock, calls>>

\* if self.last_error:
get_metrics_error_never(t) ==
    /\ frame[t].pc = "gm_error"
    /\ frame' = [frame EXCEPT ![t].pc = "release"]
    /\ UNCHANGED <<metrics, lock, calls>>
get_metrics_error_test(t) ==
    /\ frame[t].pc = "gm_error"
    /\ frame' = [frame EXCEPT ![t].pc = IF Truthy(metrics.last_error)
                                        THEN "gm_error_text" ELSE "release"]
    /\ UNCHANGED <<metrics, lock, calls>>

\* metrics += f"...{self.last_error}..."
get_metrics_error_text(t) ==
    /\ frame[t].pc = "gm_error_text"
    /\ frame' = [frame EXCEPT ![t].ret = @ \o ErrorText(metrics.last_error),
                              ![t].pc = "release"]
    /\ UNCHANGED <<metrics, lock, calls>>

get_metrics(t) ==
    \/ get_metrics_uptime(t)
    \/ ReadField(t, "gm_status", "status", "gm_progress")
    \/ ReadField(t, "gm_progress", "progress_percent", "gm_bytes")
    \/ ReadField(t, "gm_bytes", "bytes_processed", "gm_created")
    \/ ReadField(t, "gm_created", "snapshots_created", "gm_cleaned")
    \/ ReadField(t, "gm_cleaned", "snapshots_cleaned", "gm_operation")
    \/ get_metrics_text(t)
    \/ get_metrics_error_test(t)
    \/ get_metrics_error_text(t)

\* a step of the store operation thread t is running
StoreStep(t) ==
    \/ acquire(t)
    \/ update_status(t)
    \/ increment_snapshots(t)
    \/ set_error(t)
    \/ get_metrics(t)
    \/ release(t)

(***************************************************************************)
(* Requests: method, path, Content-Length header and body.                 *)
(***************************************************************************)
Keys == {"status", "operation", "progress", "bytes_processed",
         "snapshots_created", "snapshots_cleaned", "error"}
\* the values a modelled body gives each key
KeyValues ==
    [status |-> {PyStr("error"), PyStr("")},
     operation |-> {PyStr(""), PyStr("sync")},
     progress |-> {PyNone, PyInt(0), PyInt(42)},
     bytes_processed |-> {PyNone, PyInt(0), PyInt(7)},
     snapshots_created |-> {PyInt(0), PyInt(5), PyBool(TRUE)},
     snapshots_cleaned |-> {PyInt(0), PyBool(TRUE)},
     error |-> {PyStr(""), PyStr("disk full")}]
EmptyObject == [k \in Keys |-> Missing]
Present(obj) == {k \in Keys : obj[k] # Missing}
Opt(k) == KeyValues[k] \cup {Missing}
Objects ==
    {obj \in {[status |-> a, operation |-> b, progress |-> c,
               bytes_processed |-> d, snapshots_created |-> e,
               snapshots_cleaned |-> f, error |-> g] :
                 a \in Opt("status"), b \in Opt("operation"),
                 c \in Opt("progress"), d \in Opt("bytes_processed"),
                 e \in Opt("snapshots_created"), f \in Opt("snapshots_cleaned"),
                 g \in Opt("error")} :
        Cardinality(Present(obj)) <= MaxKeys}

\* "object": a JSON object; "array": valid JSON that is no object;
\* "garbage": text json.loads rejects; "badutf8": bytes decode() rejects;
\* "empty": no bytes
NoBody == [kind |-> "none", obj |-> EmptyObject]
Bodies ==
    {[kind |-> "object", obj |-> o] : o \in Objects}
    \cup {[kind |-> k, obj |-> EmptyObject] : k \in {"array", "garbage", "badutf8", "empty"}}
\* the bodies sent with a missing or malformed Content-Length
FewBodies ==
    {[kind |-> "garbage", obj |-> EmptyObject],
     [kind |-> "object", obj |-> [EmptyObject EXCEPT !["status"] = PyStr("error")]]}

NoRequest == [method |-> "", path |-> "", clen |-> "absent", body |-> NoBody]
Requests ==
    {[method |-> "GET", path |-> p, clen |-> "absent", body |-> NoBody] :
        p \in {"/metrics", "/health", "/", "/foo"}}
    \cup {[method |-> "POST", path |-> "/update", clen |-> "ok", body |-> b] :
        b \in Bodies}
    \cup {[method |-> "POST", path |-> "/update", clen |-> c, body |-> b] :
        c \in {"absent", "malformed"}, b \in FewBodies}
    \cup {[method |-> "POST", path |-> p, clen |-> "ok", body |-> b] :
        p \in {"/metrics", "/foo"}, b \in FewBodies}
    \cup {[method |-> m, path |-> p, clen |-> "absent", body |-> NoBody] :
        m \in {"PUT", "DELETE"}, p \in {"/update", "/foo"}}

\* dict.get(key, default)
Get(obj, key, default) == IF obj[key] = Missing THEN default ELSE obj[key]

(***************************************************************************)
(* SpecStore: concurrent callers of the five operations.                   *)
(***************************************************************************)
\* the argument lists the callers pass to update_status
CallerArgs ==
    { [NoArgs EXCEPT !.status = PyStr("error"), !.operation = PyStr("sync"),
                     !.progress = PyInt(42), !.bytes_processed = PyInt(7)],
      [NoArgs EXCEPT !.status = PyStr("running")],
      [NoArgs EXCEPT !.status = PyStr("error"), !.progress = PyInt(42)] }
CallerError == {PyStr("disk full")}

Init ==
    /\ metrics = NewMetrics
    /\ lock = NoThread
    /\ frame = [t \in Threads |-> Idle]
    /\ calls = [increment_snapshots_created |-> 0, increment_snapshots_cleaned |-> 0]
    /\ hpc = "serve"
    /\ req = NoRequest
    /\ data = NoBody
    /\ view = Unread
    /\ resp = <<>>
    /\ entry = [snapshots_created |-> 0, snapshots_cleaned |-> 0]
    /\ backlog = <<>>
    /\ stalled = FALSE

CallUpdateStatus(t) ==
    /\ frame[t].op = "none"
    /\ \E a \in CallerArgs : Invoke(t, "update_status", a)
    /\ UNCHANGED <<metrics, lock>>

CallIncrement(t) ==
    /\ frame[t].op = "none"
    /\ \E op \in DOMAIN calls :
          /\ calls[op] < MaxCount
          /\ Invoke(t, op, NoArgs)
    /\ UNCHANGED <<metrics, lock>>

CallSetError(t) ==
    /\ frame[t].op = "none"
    /\ \E e \in CallerError : Invoke(t, "set_error", [NoArgs EXCEPT !.error = e])
    /\ UNCHANGED <<metrics, lock>>

CallGetMetrics(t) ==
    /\ frame[t].op = "none"
    /\ Invoke(t, "get_metrics", NoArgs)
    /\ UNCHANGED <<metrics, lock>>

StoreNext ==
    \E t \in Callers :
       /\ \/ CallUpdateStatus(t)
          \/ CallIncrement(t)
          \/ CallSetError(t)
          \/ CallGetMetrics(t)
          \/ StoreStep(t)
       /\ UNCHANGED server

SpecStore == Init /\ [][StoreNext]_vars

(***************************************************************************)
(* SpecLive: the callers of SpecStore, any of whose operations may be      *)
(* left by an exception, under fair scheduling of the threads: a thread    *)
(* that can take a step again and again does take it.                      *)
(***************************************************************************)
\* an exception or an interrupt ends the operation where it stands; leaving
\* "with self.lock" releases the lock if it was taken.  An increment ended
\* before its store is not counted as made.
unwind(t) ==
    /\ frame[t].op # "none"
    /\ lock' = LockAfterUnwind(t)
    /\ frame' = [frame EXCEPT ![t] = Idle]
    /\ calls' = IF frame[t].op \in DOMAIN calls /\ frame[t].pc # "release"
                THEN [calls EXCEPT ![frame[t].op] = @ - 1]
                ELSE calls
    /\ UNCHANGED metrics

LiveNext ==
    \/ StoreNext
    \/ \E t \in Callers : unwind(t) /\ UNCHANGED server

SpecLive ==
    /\ Init
    /\ [][LiveNext]_vars
    /\ \A t \in Callers : SF_vars(StoreStep(t) /\ UNCHANGED server)

(***************************************************************************)
(* Spec: the server.  MetricsHandler on socketserver.TCPServer: requests   *)
(* are handled one after another by the thread that runs serve_forever.    *)
(***************************************************************************)
Response(code, ctype, body) == [code |-> code, ctype |-> ctype, body |-> body]

\* str(e) of the exception the try block raises for a body
ErrorMessage(body) ==
    CASE body.kind = "array" -> "'list' object has no attribute 'get'"
      [] body.kind = "badutf8" ->
            "'utf-8' codec can't decode byte 0xff in position 0: invalid start byte"
      [] OTHER -> "Expecting value: line 1 column 1 (char 0)"
ErrorMessages == {ErrorMessage(b) : b \in Bodies}

\* json.dumps({"error": str(e)})
ErrorJson(msg) == "{\"error\": " \o JsonDumps(PyStr(msg)) \o "}"

\* the except branch of do_POST
ServerError(msg) == Response(500, "application/json", <<ErrorJson(msg)>>)
BadRequest(msg) == Response(400, "application/json", <<ErrorJson(msg)>>)

\* the success branch of do_POST
Updated == Response(200, "application/json", <<"{\"status\": \"updated\"}">>)

\* send_response(404); end_headers()
NotFound == Response(404, "", <<>>)

\* BaseHTTPRequestHandler.send_error(501) for a method with no do_<METHOD>
Unsupported(method) ==
    Response(501, "text/html;charset=utf-8",
             << "<h1>Error response</h1>",
                "<p>Error code: 501</p>",
                "<p>Message: Unsupported method ('" \o method \o "').</p>" >>)

\* datetime.utcnow().isoformat() + 'Z', the clock read in whole seconds
IsoFormat(now) == "1970-01-01T00:00:0" \o IntStr(now) \o "Z"

\* json.dumps(health_data, indent=2)
HealthJson(v, stamp) ==
    << "{",
       "  \"status\": " \o JsonDumps(v.status) \o ",",
       "  \"uptime\": " \o FloatStr(v.uptime) \o ",",
       "  \"current_operation\": " \o JsonDumps(v.current_operation) \o ",",
       "  \"progress\": " \o JsonDumps(v.progress_percent) \o ",",
       "  \"timestamp\": \"" \o stamp \o "\"",
       "}" >>

\* the interpolated lines of the status page
IndexHtml(v) ==
    << "    <h1>Ethereum Snapshot Builder</h1>",
       "    <div class=\"metric\">Status: <span class=\"status " \o Str(v.status)
          \o "\">" \o Str(v.status) \o "</span></div>",
       "    <div class=\"metric\">Operation: " \o Str(v.current_operation) \o "</div>",
       "    <div class=\"metric\">Progress: " \o Str(v.progress_percent) \o "%</div>",
       "    <div class=\"metric\">Uptime: " \o FloatStr(v.uptime) \o "s</div>",
       "    <div class=\"metric\">Snapshots Created: " \o IntStr(v.snapshots_created) \o "</div>",
       "    <div class=\"metric\">Snapshots Cleaned: " \o IntStr(v.snapshots_cleaned) \o "</div>" >>

\* the handler is not inside a store operation
Returned == frame[Main].op = "none"

\* wfile.write(body) after the headers already sent
WriteBody(lines) == resp' = [resp EXCEPT ![Len(resp)].body = lines]

\* the two counters, as they stand
Counters == [snapshots_created |-> metrics.snapshots_created,
             snapshots_cleaned |-> metrics.snapshots_cleaned]

\* the handler returns
Finish ==
    /\ hpc' = "finished"
    /\ UNCHANGED <<data, view>>

\* finish_request / shutdown_request: the connection is closed and
\* serve_forever waits for the next one
shutdown_request ==
    /\ hpc = "finished"
    /\ hpc' = "serve"
    /\ req' = NoRequest
    /\ resp' = <<>>
    /\ data' = NoBody
    /\ view' = Unread
    /\ entry' = Counters
    /\ UNCHANGED <<client, metrics, lock, frame, calls>>

\* serve_forever accepts a connection; handle_one_request reads the request
\* line and the headers and looks up do_<METHOD>
Accept ==
    /\ hpc = "serve"
    /\ backlog = <<>>
    /\ \E r \in Requests :
          /\ Truthy(r.body.obj["snapshots_created"])
                => metrics.snapshots_created < MaxCount
          /\ Truthy(r.body.obj["snapshots_cleaned"])
                => metrics.snapshots_cleaned < MaxCount
          /\ req' = r
          /\ hpc' = CASE r.method = "GET" -> "do_GET"
                      [] r.method = "POST" -> "do_POST"
                      [] OTHER -> "send_error"
    /\ entry' = Counters
    /\ UNCHANGED <<client, metrics, lock, frame, calls, data, view, resp>>

\* no do_PUT / do_DELETE: the base class answers 501
send_error ==
    /\ hpc = "send_error"
    /\ resp' = <<Unsupported(req.method)>>
    /\ Finish
    /\ UNCHANGED <<client, metrics, lock, frame, calls, req, entry>>

\* do_GET, path == '/metrics': headers, then metrics.get_metrics()
do_GET_metrics ==
    /\ hpc = "do_GET"
    /\ req.path = "/metrics"
    /\ resp' = <<Response(200, "text/plain; charset=utf-8", <<>>)>>
    /\ Invoke(Main, "get_metrics", NoArgs)
    /\ hpc' = "metrics_write"
    /\ UNCHANGED <<client, metrics, lock, req, data, view, entry>>

\* self.wfile.write(metrics.get_metrics().encode('utf-8'))
do_GET_metrics_write ==
    /\ hpc = "metrics_write"
    /\ Returned
    /\ WriteBody(frame[Main].ret)
    /\ frame' = [frame EXCEPT ![Main] = Idle]
    /\ Finish
    /\ UNCHANGED <<client, metrics, lock, calls, req, entry>>

\* do_GET, path == '/health' or '/': the headers
do_GET_page ==
    /\ hpc = "do_GET"
    /\ req.path \in {"/health", "/"}
    /\ resp' = <<Response(200, IF req.path = "/health" THEN "application/json"
                               ELSE "text/html", <<>>)>>
    /\ hpc' = IF req.path = "/health" THEN "health_status" ELSE "index_status"
    /\ UNCHANGED <<client, metrics, lock, frame, calls, req, data, view, entry>>

\* an attribute of the global metrics read by the handler itself
HandlerRead(at, field, next) ==
    /\ hpc = at
    /\ view' = [view EXCEPT ![field] = metrics[field]]
    /\ hpc' = next
    /\ UNCHANGED <<client, metrics, lock, frame, calls, req, data, resp, entry>>

\* time.time() - metrics.start_time
HandlerUptime(at, next) ==
    /\ hpc = at
    /\ \E now \in Clock : view' = [view EXCEPT !.uptime = now - metrics.start_time]
    /\ hpc' = next
    /\ UNCHANGED <<client, metrics, lock, frame, calls, req, data, resp, entry>>

\* the health_data dict, in the order its values are evaluated
do_GET_health ==
    \/ HandlerRead("health_status", "status", "health_uptime")
    \/ HandlerUptime("health_uptime", "health_operation")
    \/ HandlerRead("health_operation", "current_operation", "health_progress")
    \/ HandlerRead("health_progress", "progress_percent", "health_write")

\* the timestamp, json.dumps and wfile.write
do_GET_health_write ==
    /\ hpc = "health_write"
    /\ \E now \in Clock : WriteBody(HealthJson(view, IsoFormat(now)))
    /\ Finish
    /\ UNCHANGED <<client, metrics, lock, frame, calls, req, entry>>

\* the arguments of html.format, in the order they are evaluated
do_GET_index ==
    \/ HandlerRead("index_status", "status", "index_operation")
    \/ HandlerRead("index_operation", "current_operation", "index_progress")
    \/ HandlerRead("index_progress", "progress_percent", "index_uptime")
    \/ HandlerUptime("index_uptime", "index_created")
    \/ HandlerRead("index_created", "snapshots_created", "index_cleaned")
    \/ HandlerRead("index_cleaned", "snapshots_cleaned", "index_write")

do_GET_index_write ==
    /\ hpc = "index_write"
    /\ WriteBody(IndexHtml(view))
    /\ Finish
    /\ UNCHANGED <<client, metrics, lock, frame, calls, req, entry>>

\* do_GET, else: 404
do_GET_else ==
    /\ hpc = "do_GET"
    /\ req.path \notin {"/metrics", "/health", "/"}
    /\ resp' = <<NotFound>>
    /\ Finish
    /\ UNCHANGED <<client, metrics, lock, frame, calls, req, entry>>

\* do_POST, else: 404
do_POST_else ==
    /\ hpc = "do_POST"
    /\ req.path # "/update"
    /\ resp' = <<NotFound>>
    /\ Finish
    /\ UNCHANGED <<client, metrics, lock, frame, calls, req, entry>>

\* content_length = int(self.headers.get('Content-Length', 0));
\* post_data = self.rfile.read(content_length), which blocks until that many
\* bytes have arrived.  int() of a malformed header raises ValueError before
\* the try block is entered.
do_POST_read ==
    /\ hpc = "do_POST"
    /\ req.path = "/update"
    /\ CASE req.clen = "malformed" ->
              /\ hpc' = "unhandled"
              /\ data' = NoBody
         [] req.clen = "absent" ->
              /\ hpc' = "post_parse"
              /\ data' = [kind |-> "empty", obj |-> EmptyObject]
         [] OTHER ->
              /\ ~stalled
              /\ hpc' = "post_parse"
              /\ data' = req.body
    /\ UNCHANGED <<client, metrics, lock, frame, calls, req, view, resp, entry>>

\* the exception leaves the handler: BaseServer.handle_error logs it and the
\* connection is closed with nothing sent
handle_error ==
    /\ hpc = "unhandled"
    /\ Finish
    /\ UNCHANGED <<client, metrics, lock, frame, calls, req, resp, entry>>

\* data = json.loads(post_data.decode('utf-8'))
do_POST_parse ==
    /\ hpc = "post_parse"
    /\ hpc' = IF data.kind \in {"object", "array"} THEN "post_update" ELSE "post_except"
    /\ UNCHANGED <<client, metrics, lock, frame, calls, req, data, view, resp, entry>>

\* data.get('status', metrics.status): the default is read here, by the handler
StatusArgumentCleared(obj) == Get(obj, "status", PyStr(""))
StatusArgument(obj) == Get(obj, "status", metrics.status)

\* the arguments of metrics.update_status(...)
UpdateArgumentsNoProgress(obj) ==
    [NoArgs EXCEPT !.status = StatusArgument(obj),
                   !.operation = Get(obj, "operation", PyStr("")),
                   !.bytes_processed = Get(obj, "bytes_processed", PyNone)]
UpdateArguments(obj) ==
    [NoArgs EXCEPT !.status = StatusArgument(obj),
                   !.operation = Get(obj, "operation", PyStr("")),
                   !.progress = Get(obj, "progress", PyNone),
                   !.bytes_processed = Get(obj, "bytes_processed", PyNone)]

\* metrics.update_status(data.get(...), ...); data.get raises AttributeError
\* when data is no dict
do_POST_update ==
    /\ hpc = "post_update"
    /\ IF data.kind = "object"
       THEN /\ Invoke(Main, "update_status", UpdateArguments(data.obj))
            /\ hpc' = "post_created"
       ELSE /\ hpc' = "post_except"
            /\ UNCHANGED <<frame, calls>>
    /\ UNCHANGED <<client, metrics, lock, req, data, view, resp, entry>>

\* if data.get(key): metrics.<op>()
CountIf(at, key, op, next) ==
    /\ hpc = at
    /\ Returned
    /\ IF Truthy(Get(data.obj, key, PyNone))
       THEN Invoke(Main, op, NoArgs)
       ELSE UNCHANGED <<frame, calls>>
    /\ hpc' = next
    /\ UNCHANGED <<client, metrics, lock, req, data, view, resp, entry>>

do_POST_created ==
    CountIf("post_created", "snapshots_created", "increment_snapshots_created",
            "post_cleaned")

do_POST_cleaned ==
    CountIf("post_cleaned", "snapshots_cleaned", "increment_snapshots_cleaned",
            "post_error")

\* if data.get('error'): metrics.set_error(data['error'])
do_POST_error ==
    /\ hpc = "post_error"
    /\ Returned
    /\ IF Truthy(Get(data.obj, "error", PyNone))
       THEN Invoke(Main, "set_error", [NoArgs EXCEPT !.error = data.obj["error"]])
       ELSE UNCHANGED <<frame, calls>>
    /\ hpc' = "post_ok"
    /\ UNCHANGED <<client, metrics, lock, req, data, view, resp, entry>>

\* send_response(200) ... wfile.write(b'{"status": "updated"}')
do_POST_ok ==
    /\ hpc = "post_ok"
    /\ Returned
    /\ resp' = Append(resp, Updated)
    /\ Finish
    /\ UNCHANGED <<client, metrics, lock, frame, calls, req, entry>>

\* except Exception as e: send_response(400) ... {"error": str(e)}
do_POST_except ==
    /\ hpc = "post_except"
    /\ resp' = Append(resp, BadRequest(ErrorMessage(data)))
    /\ Finish
    /\ UNCHANGED <<client, metrics, lock, frame, calls, req, entry>>

\* KeyboardInterrupt, raised in the serving thread wherever it is: the
\* handler is unwound ("with self.lock" releases the lock on the way out)
\* and main() reaches its except clause
KeyboardInterrupt ==
    /\ hpc \notin {"shutdown", "exiting", "exited"}
    /\ frame' = [frame EXCEPT ![Main] = Idle]
    /\ lock' = LockAfterUnwind(Main)
    /\ hpc' = "shutdown"
    /\ req' = NoRequest
    /\ data' = NoBody
    /\ view' = Unread
    /\ resp' = <<>>
    /\ entry' = Counters
    /\ stalled' = FALSE
    /\ UNCHANGED <<metrics, calls, backlog>>

\* the arguments of metrics.update_status("stopped", "shutdown")
ShutdownStatusOnly == [NoArgs EXCEPT !.status = PyStr("stopped")]
ShutdownArguments == [NoArgs EXCEPT !.status = PyStr("stopped"),
                                    !.operation = PyStr("shutdown")]

\* metrics.update_status("stopped", "shutdown")
main_shutdown ==
    /\ hpc = "shutdown"
    /\ Invoke(Main, "update_status", ShutdownArguments)
    /\ hpc' = "exiting"
    /\ UNCHANGED <<client, metrics, lock, req, data, view, resp, entry>>

\* main() returns
main_exit ==
    /\ hpc = "exiting"
    /\ Returned
    /\ hpc' = "exited"
    /\ UNCHANGED <<client, metrics, lock, frame, calls, req, data, view, resp, entry>>

Next ==
    \/ Accept
    \/ send_error
    \/ do_GET_metrics
    \/ do_GET_metrics_write
    \/ do_GET_page
    \/ do_GET_health
    \/ do_GET_health_write
    \/ do_GET_index
    \/ do_GET_index_write
    \/ do_GET_else
    \/ do_POST_else
    \/ do_POST_read
    \/ handle_error
    \/ do_POST_parse
    \/ do_POST_update
    \/ do_POST_created
    \/ do_POST_cleaned
    \/ do_POST_error
    \/ do_POST_ok
    \/ do_POST_except
    \/ shutdown_request
    \/ (StoreStep(Main) /\ UNCHANGED server)
    \/ KeyboardInterrupt
    \/ main_shutdown
    \/ main_exit

Spec == Init /\ [][Next]_vars

(***************************************************************************)
(* SpecSlow: the server with clients that connect while it is busy and     *)
(* clients that send the body of a POST late.  TCPServer has one thread:   *)
(* it accepts the next connection when the handler has returned.           *)
(***************************************************************************)
MaxBacklog == 1

\* a scraper's connection, queued by the listening socket
Scrape == [method |-> "GET", path |-> "/metrics", clen |-> "absent", body |-> NoBody]

\* a client connects; the connection waits in the listen queue
connect ==
    /\ hpc \notin {"shutdown", "exiting", "exited"}
    /\ Len(backlog) < MaxBacklog
    /\ backlog' = Append(backlog, Scrape)
    /\ UNCHANGED <<metrics, lock, frame, calls, hpc, req, data, view, resp,
                   entry, stalled>>

\* serve_forever accepts the oldest waiting connection
accept_queued ==
    /\ hpc = "serve"
    /\ backlog # <<>>
    /\ req' = Head(backlog)
    /\ backlog' = Tail(backlog)
    /\ hpc' = "do_GET"
    /\ entry' = Counters
    /\ UNCHANGED <<metrics, lock, frame, calls, data, view, resp, stalled>>

\* serve_forever accepts a POST /update of which the headers have arrived
\* and the body has not
accept_slow ==
    /\ hpc = "serve"
    /\ backlog = <<>>
    /\ \E r \in Requests :
          /\ r.method = "POST" /\ r.path = "/update" /\ r.clen = "ok"
          /\ Truthy(r.body.obj["snapshots_created"])
                => metrics.snapshots_created < MaxCount
          /\ Truthy(r.body.obj["snapshots_cleaned"])
                => metrics.snapshots_cleaned < MaxCount
          /\ req' = r
    /\ hpc' = "do_POST"
    /\ stalled' = TRUE
    /\ entry' = Counters
    /\ UNCHANGED <<metrics, lock, frame, calls, data, view, resp, backlog>>

\* the rest of the body arrives: rfile.read can return
body_arrives ==
    /\ stalled
    /\ stalled' = FALSE
    /\ UNCHANGED <<metrics, lock, frame, calls, hpc, req, data, view, resp,
                   entry, backlog>>

SlowNext ==
    \/ Next
    \/ connect
    \/ accept_queued
    \/ accept_slow
    \/ body_arrives

SpecSlow == Init /\ [][SlowNext]_vars

(***************************************************************************)
(* Properties.                                                             *)
(***************************************************************************)
Active(op) == {t \in Threads : frame[t].op = op}
InCritical(t) == frame[t].pc \notin {"idle", "acquire"}

\* C1: with any number of concurrent increment_snapshots_created (or
\* increment_snapshots_cleaned) calls, once every call has returned the
\* counter equals the number of calls made: no increment is lost.
C1_NoLostIncrement ==
    \A op \in DOMAIN calls :
        Active(op) = {} => metrics[CounterOf(op)] = calls[op]

\* two increment_snapshots_created calls overlap: one has loaded the counter
\* under the lock, the other waits for the lock
C1_Witness ==
    \E t1, t2 \in Callers :
        /\ t1 # t2
        /\ frame[t1].op = "increment_snapshots_created"
        /\ frame[t1].pc = "inc_write"
        /\ frame[t2].op = "increment_snapshots_created"
        /\ frame[t2].pc = "acquire"

\* C2: at most one caller is inside a store operation's critical section,
\* and the text get_metrics is about to return is the rendering of the
\* record as it stands at that one instant.
C2_MutualExclusion ==
    /\ Cardinality({t \in Threads : InCritical(t)}) <= 1
    /\ \A t \in Threads :
          frame[t].op = "get_metrics" /\ frame[t].pc = "release"
             => \E u \in Clock : frame[t].ret = Render(metrics, u - metrics.start_time)

\* get_metrics has built its text, error block included, while an
\* update_status call of another thread waits for the lock
C2_Witness ==
    \E t1, t2 \in Callers :
        /\ frame[t1].op = "get_metrics"
        /\ frame[t1].pc = "release"
        /\ Len(frame[t1].ret) > Len(MetricsText(Unread))
        /\ metrics.status = PyStr("error")
        /\ frame[t2].op = "update_status"
        /\ frame[t2].pc = "acquire"

\* the positions at which do_GET itself loads an attribute of metrics
HandlerReads ==
    {"health_status", "health_uptime", "health_operation", "health_progress",
     "index_status", "index_operation", "index_progress", "index_uptime",
     "index_created", "index_cleaned"}
\* the positions at which get_metrics loads an attribute of metrics
StoreReads ==
    {"gm_uptime", "gm_status", "gm_progress", "gm_bytes", "gm_created",
     "gm_cleaned", "gm_operation", "gm_error", "gm_error_text"}

\* C3: every read of a store field made by a GET handler happens while the
\* store's lock is held, and the values one response carries all come from
\* one record state.
C3_ReadsUnderLock ==
    /\ hpc \in HandlerReads => lock = Main
    /\ frame[Main].pc \in StoreReads => lock = Main
    /\ hpc = "health_write"
          => /\ view.status = metrics.status
             /\ view.current_operation = metrics.current_operation
             /\ view.progress_percent = metrics.progress_percent
    /\ hpc = "index_write"
          => /\ view.status = metrics.status
             /\ view.current_operation = metrics.current_operation
             /\ view.progress_percent = metrics.progress_percent
             /\ view.snapshots_created = metrics.snapshots_created
             /\ view.snapshots_cleaned = metrics.snapshots_cleaned

\* a POST /update whose JSON object holds no 'status' key is being handled
StatuslessUpdate ==
    /\ req.method = "POST"
    /\ req.path = "/update"
    /\ data.kind = "object"
    /\ data.obj["status"] = Missing

EmptyUpdate ==
    /\ frame[Main].op = "update_status"
    /\ hpc = "post_created"
    /\ data.obj["status"] \in {Missing, PyStr("")}
    /\ frame[Main].args.operation = PyStr("")
    /\ frame[Main].args.progress = PyNone
    /\ frame[Main].args.bytes_processed = PyNone

\* C5: update_status with all arguments absent or empty is a no-op: the
\* record after the call is field for field the record before it.
C5_EmptyUpdateIsNoOp ==
    [][EmptyUpdate => metrics' = metrics]_vars

\* the body read by do_POST is not JSON, or is JSON but no object
BadBodyKinds == {"array", "garbage", "badutf8", "empty"}

\* C6: a POST /update whose body is not parsable as JSON, or is JSON that is
\* not an object, is answered with 400 and a JSON body with an 'error' key,
\* and no step of its handling changes a field of the store.
C6_BadBodyRejected ==
    [][/\ data.kind \in BadBodyKinds => metrics' = metrics
       /\ (hpc' = "finished" /\ data'.kind \in BadBodyKinds)
             => /\ Len(resp') = 1
                /\ resp'[1].code = 400
                /\ \E m \in ErrorMessages : resp'[1].body = <<ErrorJson(m)>>]_vars

\* a JSON array was answered with 400 while the record held earlier updates
C6_Witness ==
    /\ hpc = "finished"
    /\ data.kind = "array"
    /\ Len(resp) = 1
    /\ resp[1].code = 400
    /\ resp[1].body = <<ErrorJson("'list' object has no attribute 'get'")>>
    /\ metrics.status = PyStr("error")
    /\ metrics.snapshots_created = 1

\* C7: every POST /update receives exactly one response, 200 with
\* {"status": "updated"} or 400 with a JSON object carrying 'error'.
C7_OneResponse ==
    (hpc = "finished" /\ req.method = "POST" /\ req.path = "/update")
       => /\ Len(resp) = 1
          /\ \/ /\ resp[1].code = 200
                /\ resp[1].body = <<"{\"status\": \"updated\"}">>
             \/ /\ resp[1].code = 400
                /\ \E m \in ErrorMessages : resp[1].body = <<ErrorJson(m)>>

\* the (method, path) pairs of the routing table
Routes ==
    {<<"GET", "/metrics">>, <<"GET", "/health">>, <<"GET", "/">>,
     <<"POST", "/update">>}

\* C8: a request outside the routing table is answered with 404 and an
\* empty body, and leaves the store unchanged.
C8_OtherwiseNotFound ==
    [][/\ (req.method # "" /\ <<req.method, req.path>> \notin Routes)
             => metrics' = metrics
       /\ (hpc' = "finished" /\ <<req'.method, req'.path>> \notin Routes)
             => resp' = <<NotFound>>]_vars

\* the values of a body key that Python takes as false
Falsy == {Missing, PyNone, PyBool(FALSE), PyInt(0), PyStr("")}
Bump(v) == IF v \in Falsy THEN 0 ELSE 1

\* C9: a successful POST /update raises snapshots_created by exactly 1 when
\* the body's 'snapshots_created' is truthy, whatever its magnitude, and by
\* 0 when it is absent or falsy; likewise snapshots_cleaned.
C9_TruthyAddsOne ==
    (hpc = "finished" /\ resp = <<Updated>>)
       => /\ metrics.snapshots_created
                = entry.snapshots_created + Bump(data.obj["snapshots_created"])
          /\ metrics.snapshots_cleaned
                = entry.snapshots_cleaned + Bump(data.obj["snapshots_cleaned"])

\* {"snapshots_created": 5} was answered 200 and added 1, not 5
C9_Witness ==
    /\ hpc = "finished"
    /\ resp = <<Updated>>
    /\ data.obj["snapshots_created"] = PyInt(5)
    /\ entry.snapshots_created = 1
    /\ metrics.snapshots_created = 2

\* C10: no step decreases snapshots_created or snapshots_cleaned, and each
\* step changes each of them by 0 or +1.
C10_CountersStepByOne ==
    [][/\ metrics'.snapshots_created - metrics.snapshots_created \in {0, 1}
       /\ metrics'.snapshots_cleaned - metrics.snapshots_cleaned \in {0, 1}]_vars

\* both counters have been raised, one of them twice
C10_Witness ==
    /\ metrics.snapshots_created = 2
    /\ metrics.snapshots_cleaned = 1

\* the metric names of the exposition, in the order of the blocks
MetricNames ==
    << "snapshot_builder_info", "snapshot_builder_uptime_seconds",
       "snapshot_builder_status", "snapshot_builder_progress_percent",
       "snapshot_builder_bytes_processed_total",
       "snapshot_builder_snapshots_created_total",
       "snapshot_builder_snapshots_cleaned_total",
       "snapshot_builder_last_operation_info",
       "snapshot_builder_last_error_info" >>
TypeLine(name) == {"# TYPE " \o name \o " " \o k : k \in {"gauge", "counter"}}
IsTypeLine(line) == \E i \in DOMAIN MetricNames : line \in TypeLine(MetricNames[i])
\* a block: blank separator (but for the first), HELP, TYPE, one sample
BlockAt(text, i) ==
    LET base == 4 * (i - 1)
    IN /\ i > 1 => text[base] = ""
       /\ text[base + 1] # "" /\ ~IsTypeLine(text[base + 1])
       /\ text[base + 2] \in TypeLine(MetricNames[i])
       /\ text[base + 3] # "" /\ ~IsTypeLine(text[base + 3])
\* the text is exactly the first n blocks of MetricNames
HasBlocks(text, n) ==
    /\ Len(text) = 4 * n - 1
    /\ \A i \in 1 .. n : BlockAt(text, i)
\* a GET /metrics has been answered
Scraped == hpc = "finished" /\ req.method = "GET" /\ req.path = "/metrics"

\* C11: the text get_metrics returns is exactly the eight blocks info,
\* uptime_seconds, status, progress_percent, bytes_processed_total,
\* snapshots_created_total, snapshots_cleaned_total, last_operation_info in
\* that order, followed by a ninth block last_error_info if and only if
\* last_error is non-empty.
C11_BlocksInOrder ==
    /\ Scraped => HasBlocks(resp[1].body,
                            IF metrics.last_error = PyStr("") THEN 8 ELSE 9)
    /\ \A t \in Threads :
          frame[t].op = "get_metrics" /\ frame[t].pc = "release"
             => HasBlocks(frame[t].ret,
                          IF metrics.last_error = PyStr("") THEN 8 ELSE 9)

\* a scrape answered with the ninth block after an error was recorded
C11_Witness ==
    /\ Scraped
    /\ metrics.last_error = PyStr("disk full")
    /\ Len(resp[1].body) = 35
    /\ resp[1].body[34] = "# TYPE snapshot_builder_last_error_info gauge"

\* the sample line of the status gauge the claim expects for a stored status
GaugeLine(status) ==
    "snapshot_builder_status "
       \o (CASE status = PyStr("running") -> "1"
             [] status = PyStr("error") -> "2"
             [] OTHER -> "0")

ScrapeBehindSlowUpdate ==
    /\ hpc = "do_POST"
    /\ stalled
    /\ backlog # <<>>

\* C13: each connection has its own worker, so while one client's POST
\* /update is blocked waiting for its body, a GET /metrics made on another
\* connection can still be accepted (and, the server's steps being
\* scheduled fairly, is then answered).
C13_SlowUpdateDoesNotStallScrape ==
    ScrapeBehindSlowUpdate => ENABLED accept_queued

\* main() is in its except clause or past it
Interrupted == hpc \in {"shutdown", "exiting", "exited"}

\* C14: when the server is interrupted, at whatever point of the handling
\* of a request, the final update_status('stopped', 'shutdown') is carried
\* out: it cannot get stuck, it leaves status = 'stopped' and
\* current_operation = 'shutdown', it leaves progress_percent,
\* bytes_processed, both counters and last_error as they were, and nothing
\* changes the store after it.
C14_ShutdownWrite ==
    /\ [](hpc \in {"shutdown", "exiting"} => ENABLED Next)
    /\ [](hpc = "exited"
             => /\ metrics.status = PyStr("stopped")
                /\ metrics.current_operation = PyStr("shutdown")
                /\ lock = NoThread
                /\ ~ENABLED Next)
    /\ [][Interrupted'
             => /\ metrics'.progress_percent = metrics.progress_percent
                /\ metrics'.bytes_processed = metrics.bytes_processed
                /\ metrics'.snapshots_created = metrics.snapshots_created
                /\ metrics'.snapshots_cleaned = metrics.snapshots_cleaned
                /\ metrics'.last_error = metrics.last_error
                /\ metrics'.start_time = metrics.start_time]_vars

\* the server has exited after the final write, the record otherwise as the
\* requests before the interrupt left it
C14_Witness ==
    /\ hpc = "exited"
    /\ metrics.status = PyStr("stopped")
    /\ metrics.current_operation = PyStr("shutdown")
    /\ metrics.progress_percent = PyInt(42)
    /\ metrics.snapshots_created = 1
    /\ metrics.last_error = PyStr("disk full")

\* the body keys update_status takes, with the field each one sets
UpdateKeys == {"status", "operation", "progress", "bytes_processed"}
FieldOf(key) == CASE key = "status" -> "status"
                  [] key = "operation" -> "current_operation"
                  [] key = "progress" -> "progress_percent"
                  [] OTHER -> "bytes_processed"
\* the object supplies the field: a status, a non-empty operation, a
\* progress or bytes_processed that is not null
Supplies(obj, key) ==
    /\ obj[key] # Missing
    /\ key = "operation" => obj[key] # PyStr("")
    /\ key \in {"progress", "bytes_processed"} => obj[key] # PyNone
\* a POST /update has been answered 200
UpdateDone == hpc = "finished" /\ resp = <<Updated>>

\* C15: last write wins.  A successful POST /update leaves in each of
\* status, current_operation, progress_percent and bytes_processed the value
\* it supplied; a field changes only while a request that supplies it is
\* handled (or in the shutdown write); and GET /metrics reports the stored
\* values.  So a scrape shows, for each field, the value of the most recent
\* successful request that supplied it, or the initial value.
C15_LastWriteWins ==
    /\ [](UpdateDone =>
             \A k \in UpdateKeys :
                Supplies(data.obj, k) => metrics[FieldOf(k)] = data.obj[k])
    /\ [][\A k \in UpdateKeys :
             metrics'[FieldOf(k)] # metrics[FieldOf(k)]
                => \/ /\ req.method = "POST"
                      /\ data.kind = "object"
                      /\ Supplies(data.obj, k)
                      /\ metrics'[FieldOf(k)] = data.obj[k]
                   \/ Interrupted /\ k \in {"status", "operation"}]_vars
    /\ [](Scraped =>
             /\ resp[1].body[11] = GaugeLine(metrics.status)
             /\ resp[1].body[15] = "snapshot_builder_progress_percent "
                                      \o IntStr(metrics.progress_percent.n)
             /\ resp[1].body[19] = "snapshot_builder_bytes_processed_total "
                                      \o IntStr(metrics.bytes_processed.n)
             /\ resp[1].body[31] = "snapshot_builder_last_operation_info{operation=\""
                                      \o metrics.current_operation.s \o "\"} 1")

\* GET /metrics after POST /update {"progress": 42}
C15_Witness ==
    /\ Scraped
    /\ metrics.progress_percent = PyInt(42)
    /\ resp[1].body[15] = "snapshot_builder_progress_percent 42"

\* a POST /update with a JSON object is being handled
Updating == req.method = "POST" /\ data.kind = "object" /\ ~Interrupted
\* the four steps of one POST /update, each as "its effect is in the record"
UpdateApplied ==
    \A k \in UpdateKeys :
       Supplies(data.obj, k) => metrics[FieldOf(k)] = data.obj[k]
CreatedApplied ==
    metrics.snapshots_created
       = entry.snapshots_created + Bump(data.obj["snapshots_created"])
CleanedApplied ==
    metrics.snapshots_cleaned
       = entry.snapshots_cleaned + Bump(data.obj["snapshots_cleaned"])

\* C16: one POST /update applies update_status (status, operation,
\* progress, bytes_processed, in one critical section), then the created
\* increment, then the cleaned increment, then the error: a step that
\* makes a later effect visible finds every earlier one in the record, the
\* fields of update_status are written with the lock held throughout, and
\* so every state in which the lock is free shows a prefix of the four.
C16_PrefixOrder ==
    /\ [](frame[Main].pc \in {"us_status", "us_operation", "us_progress", "us_bytes"}
             => lock = Main)
    /\ [](Updating /\ metrics.snapshots_created # entry.snapshots_created
             => UpdateApplied)
    /\ [](Updating /\ metrics.snapshots_cleaned # entry.snapshots_cleaned
             => UpdateApplied /\ CreatedApplied)
    /\ [][Updating /\ Updating' =>
             /\ (\E k \in UpdateKeys : metrics'[FieldOf(k)] # metrics[FieldOf(k)])
                   => /\ hpc = "post_created"
                      /\ metrics.snapshots_created = entry.snapshots_created
                      /\ metrics.snapshots_cleaned = entry.snapshots_cleaned
                      /\ metrics'.last_error = metrics.last_error
             /\ metrics'.snapshots_created # metrics.snapshots_created
                   => /\ UpdateApplied
                      /\ metrics.snapshots_cleaned = entry.snapshots_cleaned
                      /\ metrics'.last_error = metrics.last_error
             /\ metrics'.snapshots_cleaned # metrics.snapshots_cleaned
                   => /\ UpdateApplied /\ CreatedApplied
                      /\ metrics'.last_error = metrics.last_error
             /\ metrics'.last_error # metrics.last_error
                   => UpdateApplied /\ CreatedApplied /\ CleanedApplied]_vars

\* POST /update {"status": "error", "error": "disk full"} between its
\* update_status and its set_error: the lock is free, status is 'error'
\* and last_error is still empty
C16_Witness ==
    /\ Updating
    /\ data.obj["status"] = PyStr("error")
    /\ data.obj["error"] = PyStr("disk full")
    /\ hpc = "post_error"
    /\ lock = NoThread
    /\ metrics.status = PyStr("error")
    /\ metrics.last_error = PyStr("")

\* the argument of update_status is supplied: a non-empty operation, a
\* progress or bytes_processed other than None
Given(arg) == arg \notin {PyNone, PyStr("")}
\* the optional arguments of update_status, with the field each one sets
OptionalArgs == {"operation", "progress", "bytes_processed"}

\* C17: update_status overwrites each optional field exactly when its
\* argument is supplied: current_operation when operation is a non-empty
\* string, progress_percent when progress is not None (0 included),
\* bytes_processed when bytes_processed is not None (0 included); with the
\* argument absent, null or (operation) empty the field keeps its value.
C17_OverwriteIffSupplied ==
    /\ [](frame[Main].op = "update_status" /\ frame[Main].pc = "release"
             => \A k \in OptionalArgs :
                   Given(frame[Main].args[k])
                      => metrics[FieldOf(k)] = frame[Main].args[k])
    /\ [][frame[Main].op = "update_status"
             => \A k \in OptionalArgs :
                   \/ metrics'[FieldOf(k)] = metrics[FieldOf(k)]
                   \/ /\ Given(frame[Main].args[k])
                      /\ metrics'[FieldOf(k)] = frame[Main].args[k]]_vars

\* update_status(status='error', progress=0) has written the status and is
\* about to write 0 over a progress of 42
C17_Witness ==
    /\ frame[Main].op = "update_status"
    /\ frame[Main].pc = "us_progress"
    /\ frame[Main].args.progress = PyInt(0)
    /\ frame[Main].args.status = PyStr("error")
    /\ metrics.status = PyStr("error")
    /\ metrics.progress_percent = PyInt(42)

\* C18: no store operation blocks for ever.  The lock is held only by a
\* caller inside its critical section, whichever way the last holder left
\* (return or exception); while any caller is inside an operation some
\* caller can take a step; and, the threads being scheduled fairly, every
\* caller that starts an operation gets past the acquisition of the lock
\* and leaves the operation.
C18_NoOperationBlocks ==
    /\ [](\A t \in Callers : lock = t <=> InCritical(t))
    /\ []((\E t \in Callers : frame[t].op # "none")
             => \E t \in Callers : ENABLED (StoreStep(t) /\ UNCHANGED server))
    /\ \A t \in Callers : (frame[t].pc = "acquire") ~> (frame[t].pc # "acquire")
    /\ \A t \in Callers : (frame[t].op # "none") ~> (frame[t].op = "none")

\* a caller waits for the lock another caller holds
C18_Witness ==
    \E t1, t2 \in Callers :
        /\ frame[t1].pc = "acquire"
        /\ frame[t1].op = "get_metrics"
        /\ lock = t2
        /\ frame[t2].op = "update_status"
        /\ frame[t2].pc = "us_progress"

\* the fields each store operation may write
Writes(op) ==
    CASE op = "update_status" ->
            {"status", "current_operation", "progress_percent", "bytes_processed"}
      [] op = "increment_snapshots_created" -> {"snapshots_created"}
      [] op = "increment_snapshots_cleaned" -> {"snapshots_cleaned"}
      [] op = "set_error" -> {"last_error"}
      [] OTHER -> {}

\* C19: the record changes only in the handling of POST /update and in the
\* shutdown write: every GET and every request answered 404 leaves all
\* eight fields as they were, start_time never changes, and each mutator
\* changes only its own fields.
C19_FrameConditions ==
    [][/\ metrics'.start_time = metrics.start_time
       /\ metrics' # metrics
             => \/ req.method = "POST" /\ req.path = "/update"
                \/ hpc = "exiting"
       /\ \A f \in DOMAIN metrics :
             metrics'[f] # metrics[f] => f \in Writes(frame[Main].op)]_vars

\* a request for an unknown path answered 404 with the record as earlier
\* updates left it
C19_Witness ==
    /\ hpc = "finished"
    /\ req.method = "GET"
    /\ req.path = "/foo"
    /\ resp = <<NotFound>>
    /\ metrics.last_error = PyStr("disk full")
    /\ metrics.snapshots_cleaned = 1

\* C20: once last_error is non-empty no step makes it empty again, and a
\* scrape made while it is non-empty carries the last_error_info block: so
\* once the block has appeared it appears in every later GET /metrics.
C20_ErrorIsSticky ==
    /\ [][metrics.last_error # PyStr("") => metrics'.last_error # PyStr("")]_vars
    /\ [](Scraped /\ metrics.last_error # PyStr("")
             => /\ Len(resp[1].body) = 35
                /\ resp[1].body[35] = "snapshot_builder_last_error_info{error=\""
                                         \o metrics.last_error.s \o "\"} 1")

\* a scrape that still carries the error block after a later update has
\* replaced the status 'error'
C20_Witness ==
    /\ Scraped
    /\ metrics.status = PyStr("")
    /\ metrics.current_operation = PyStr("sync")
    /\ Len(resp[1].body) = 35
    /\ resp[1].body[35] = "snapshot_builder_last_error_info{error=\"disk full\"} 1"

=============================================================================
